---- MODULE Spec2Model ----
(***************************************************************************)
(* A model of src/main.py: the six generator coroutines, the mirror        *)
(* handler, the TCX feed adapter and main()'s wiring, run by one asyncio   *)
(* event loop.                                                             *)
(*                                                                         *)
(* Numbers.  Every Python number is kept in hundredths (0.5 is 50, -100 is *)
(* -10000), so that step=0.5 and round(x, 2) are exact integers.  Time is  *)
(* kept in ticks of half a second, the sleep of cyclic_data as wired.      *)
(*                                                                         *)
(* Values.  A value carries the OPC UA variant type asyncua derives from   *)
(* the Python type (bool -> Boolean, int -> Int64, float -> Double,        *)
(* str -> String), its number n and, for a string, its characters s.       *)
(***************************************************************************)
EXTENDS Integers, Sequences, FiniteSets, TLC

(* ------------------------------ bounds -------------------------------- *)

\* Clock readings kept in the wired system (ticks); time stops there.
MaxTime == 2
\* Writes counted per variable; the count saturates there.
MaxWrites == 4
\* Data-change notifications the subscription may hold undelivered.
MaxQueue == 2
\* Longest track drawn for the feed adapter.
MaxTrack == 3
\* Tasks a rejected write may end in one run.
MaxFaults == 1
\* Longest sleep (seconds) drawn for a generator run on its own.
MaxRefresh == 2
\* Clock readings kept for tasks run on their own (ticks); the clock saturates there.
MaxClock == 6

(* ------------------------------ values -------------------------------- *)

Hundredths == 100
TicksPerSecond == 2

Bool(b) == [vt |-> "Boolean", n |-> IF b THEN 1 ELSE 0, s |-> <<>>]
Int64(i) == [vt |-> "Int64", n |-> i * Hundredths, s |-> <<>>]
Float(h) == [vt |-> "Double", n |-> h, s |-> <<>>]
Str(chars) == [vt |-> "String", n |-> 0, s |-> chars]
None == [vt |-> "Null", n |-> 0, s |-> <<>>]

\* Python truthiness: None, False, 0, 0.0 and "" are falsy.
Truthy(v) ==
    CASE v.vt = "Null" -> FALSE
      [] v.vt = "String" -> v.s # <<>>
      [] OTHER -> v.n # 0

\* A slip: isinstance(val, int), which a bool passes too.
IsInt(v) == v.vt \in {"Boolean", "Int64"}

\* isinstance(val, bool)
IsBool(v) == v.vt = "Boolean"

\* not value
Not(v) == Bool(~Truthy(v))

\* value + increment: int + int is an int, anything with a float is a float.
Add(a, b) ==
    [vt |-> IF a.vt = "Int64" /\ b.vt = "Int64" THEN "Int64" ELSE "Double",
     n |-> a.n + b.n, s |-> <<>>]

Neg(a) == [a EXCEPT !.n = 0 - a.n]

\* ua.Double(value)
UaDouble(v) == Float(v.n)

Min2(a, b) == IF a < b THEN a ELSE b

(* --------------------------- the address space ------------------------ *)

Variables ==
    {"BooleanData", "PositiveTrendData", "NegativeTrendData", "TemperatureData",
     "HumidityData", "CyclicData", "MirrorDataOriginal", "MirrorDataCopy",
     "GPSLatitude", "GPSLongitude", "GPSLatitudeAndLongitude"}

\* datatype= of each add_variable call
DataType(v) ==
    CASE v \in {"BooleanData", "MirrorDataOriginal", "MirrorDataCopy"} -> "Boolean"
      [] v \in {"GPSLatitude", "GPSLongitude", "GPSLatitudeAndLongitude"} -> "String"
      [] OTHER -> "Double"

\* the initial value of each add_variable call
InitialValue(v) ==
    CASE v \in {"BooleanData", "MirrorDataOriginal", "MirrorDataCopy"} -> Bool(TRUE)
      [] v \in {"PositiveTrendData", "NegativeTrendData"} -> Int64(0)
      [] v = "TemperatureData" -> Float(1850)
      [] v = "HumidityData" -> Float(6020)
      [] v = "CyclicData" -> Float(0)
      [] OTHER -> Str(<<>>)

(* ------------------------------ the tasks ----------------------------- *)

Generators == {"bool_task", "pos_task", "neg_task", "temp_task", "hum_task", "cyclic_task"}
Tasks == Generators \cup {"tcx_task"}

NoArgs ==
    [fn |-> "none", data |-> "BooleanData", refresh |-> 1, init |-> Int64(0),
     increment |-> Int64(1), min |-> Int64(0), max |-> Int64(10),
     step |-> Float(10), cycle_time |-> 1]

\* def toggle_data(data, refresh=1, init=False)
ToggleArgs(data, refresh, init) ==
    [NoArgs EXCEPT !.fn = "toggle_data", !.data = data, !.refresh = refresh, !.init = init]

\* def periodic_data(data, refresh=1, init=0, increment=1)
PeriodicArgs(data, refresh, init, increment) ==
    [NoArgs EXCEPT !.fn = "periodic_data", !.data = data, !.refresh = refresh,
                   !.init = init, !.increment = increment]

\* def random_data(data, refresh=1, init=0, min=0, max=10)
RandomArgs(data, refresh, init, min, max) ==
    [NoArgs EXCEPT !.fn = "random_data", !.data = data, !.refresh = refresh,
                   !.init = init, !.min = min, !.max = max]

\* def cyclic_data(data, cycle_time=1, step=0.1, init=0, min=0, max=100)
CyclicArgs(data, cycle_time, step, init, min, max) ==
    [NoArgs EXCEPT !.fn = "cyclic_data", !.data = data, !.cycle_time = cycle_time,
                   !.step = step, !.init = init, !.min = min, !.max = max]

\* A slip: neg_task is handed pos_data, the variable of pos_task.
WiredArgsShared ==
    [t \in Tasks |->
        CASE t = "bool_task" -> ToggleArgs("BooleanData", 10, Bool(TRUE))
          [] t = "pos_task" -> PeriodicArgs("PositiveTrendData", 5, Int64(0), Int64(1))
          [] t = "neg_task" -> PeriodicArgs("PositiveTrendData", 5, Int64(0), Int64(0 - 2))
          [] t = "temp_task" -> RandomArgs("TemperatureData", 10, Float(1850), Int64(15), Int64(22))
          [] t = "hum_task" -> RandomArgs("HumidityData", 10, Float(6020), Int64(0), Int64(100))
          [] t = "cyclic_task" ->
                CyclicArgs("CyclicData", 200, Float(50), Int64(0), Int64(0 - 100), Int64(100))
          [] OTHER -> [NoArgs EXCEPT !.fn = "TCXUpdateHandler.start"]]

\* The tasks main() creates, with the arguments it passes.
WiredArgs ==
    [t \in Tasks |->
        CASE t = "bool_task" -> ToggleArgs("BooleanData", 10, Bool(TRUE))
          [] t = "pos_task" -> PeriodicArgs("PositiveTrendData", 5, Int64(0), Int64(1))
          [] t = "neg_task" -> PeriodicArgs("NegativeTrendData", 5, Int64(0), Int64(0 - 2))
          [] t = "temp_task" -> RandomArgs("TemperatureData", 10, Float(1850), Int64(15), Int64(22))
          [] t = "hum_task" -> RandomArgs("HumidityData", 10, Float(6020), Int64(0), Int64(100))
          [] t = "cyclic_task" ->
                CyclicArgs("CyclicData", 200, Float(50), Int64(0), Int64(0 - 100), Int64(100))
          [] OTHER -> [NoArgs EXCEPT !.fn = "TCXUpdateHandler.start"]]

VARIABLES
    mainpc,      \* where main() stands
    mainExc,     \* the exception main() ended with, "none" while it runs
    sub,         \* MirrorHandler.sub: "none", "created", "subscribed"
    writable,    \* whether MirrorDataOriginal was made writable
    args,        \* each task's coroutine arguments
    status,      \* each task: "absent", "created", "sleeping", "running", "finished", "failed"
    exc,         \* the exception each task ended with, "none" otherwise
    slept,       \* ticks each sleeping task has slept so far (up to its sleep)
    value,       \* each generator's local `value`
    increasing,  \* cyclic_data's local `increasing`
    store,       \* the address space: each variable's current value
    nwrites,     \* write_value calls the store accepted, per variable (saturating)
    queue,       \* data-change notifications the subscription has not delivered
    lastCall,    \* what the last datachange_notification call did
    track,       \* the position records the track file holds
    idx,         \* records the TCX handler has passed to on_update
    fpc,         \* where the feed task stands inside on_update
    fed,         \* per record passed to on_update, the variables it wrote
    now          \* the loop's clock in ticks (saturating at MaxClock)

vars ==
    <<mainpc, mainExc, sub, writable, args, status, exc, slept, value, increasing,
      store, nwrites, queue, lastCall, track, idx, fpc, fed, now>>

mainVars == <<mainpc, mainExc>>
mirrorVars == <<sub, writable, queue, lastCall>>
feedVars == <<track, idx, fpc, fed>>

\* loop.run_until_complete(main()): the loop runs until main() has ended.
LoopRunning == mainpc # "done"

(* ------------------------------ the store ----------------------------- *)

\* What the store may answer to write_value(val) on variable v: it accepts,
\* it rejects for a reason of its own, or it rejects a value whose variant
\* type is not the variable's data type.  A rejection ends the task that
\* wrote, and the model follows runs in which at most MaxFaults tasks end so.
WriteOutcomes(v, val) ==
    IF Cardinality({t \in Tasks : status[t] = "failed"}) < MaxFaults
      THEN {"ok", "WriteFailure"} \cup (IF val.vt # DataType(v) THEN {"TypeMismatch"} ELSE {})
      ELSE {"ok"}

Count(n) == Min2(n + 1, MaxWrites)

(* ----------------------------- generators ----------------------------- *)

\* refresh = cycle_time / ((max - min) / step), in ticks
CyclicRefresh(a) == (a.cycle_time * TicksPerSecond) \div ((a.max.n - a.min.n) \div a.step.n)

\* A slip: the sleep is twice the refresh.
SleepTicksDouble(a) ==
    IF a.fn = "cyclic_data" THEN CyclicRefresh(a) ELSE 2 * a.refresh * TicksPerSecond

\* the argument of the task's asyncio.sleep, in ticks
SleepTicks(a) ==
    IF a.fn = "cyclic_data" THEN CyclicRefresh(a) ELSE a.refresh * TicksPerSecond

\* asyncio.sleep(refresh) has returned
SleepDone(t) == slept[t] >= SleepTicks(args[t])

\* periodic_data counts without end: the model follows its first MaxWrites writes.
Followed(t) == args[t].fn = "periodic_data" => nwrites[args[t].data] < MaxWrites

\* The task has a step to take: it was just created, or its sleep is over.
Ready(t) ==
    /\ LoopRunning
    /\ Followed(t)
    /\ \/ status[t] = "created"
       \/ status[t] = "sleeping" /\ SleepDone(t)

\* The order in which main() creates the generator tasks.
Created == <<"bool_task", "pos_task", "neg_task", "temp_task", "hum_task", "cyclic_task">>

\* The loop runs its ready callbacks first in, first out: of the tasks that
\* became ready together, the one created first steps first.
Scheduled(t) ==
    /\ Ready(t)
    /\ \A i, j \in 1..Len(Created) : (Created[j] = t /\ i < j) => ~Ready(Created[i])

\* await data.write_value(w); await asyncio.sleep(refresh) of generator t,
\* which has set its local value to v.
WriteThenSleep(t, v, w, up) ==
    LET d == args[t].data IN
    \E out \in WriteOutcomes(d, w) :
        /\ value' = [value EXCEPT ![t] = v]
        /\ increasing' = up
        /\ IF out = "ok"
             THEN /\ store' = [store EXCEPT ![d] = w]
                  /\ nwrites' = [nwrites EXCEPT ![d] = Count(@)]
                  /\ status' = [status EXCEPT ![t] = "sleeping"]
                  /\ slept' = [slept EXCEPT ![t] = 0]
                  /\ exc' = exc
             ELSE /\ status' = [status EXCEPT ![t] = "failed"]
                  /\ exc' = [exc EXCEPT ![t] = out]
                  /\ UNCHANGED <<store, nwrites, slept>>
        /\ UNCHANGED <<mainVars, mirrorVars, feedVars, args, now>>

\* A slip: the value is written again without being flipped.
ToggleNextSame(v) == v

\* value = not value
ToggleNext(v) == Not(v)

toggle_data(t) ==
    /\ args[t].fn = "toggle_data"
    /\ Scheduled(t)
    /\ LET v == IF status[t] = "created" THEN args[t].init ELSE ToggleNext(value[t])
       IN WriteThenSleep(t, v, v, increasing)

\* A slip: the ramp is clamped, it never goes below -4.
PeriodicNextClamped(v, a) ==
    IF v.n + a.increment.n < 0 - 4 * Hundredths THEN v ELSE Add(v, a.increment)

\* value += increment
PeriodicNext(v, a) == Add(v, a.increment)

periodic_data(t) ==
    /\ args[t].fn = "periodic_data"
    /\ Scheduled(t)
    /\ LET v == IF status[t] = "created" THEN args[t].init ELSE PeriodicNext(value[t], args[t])
       IN WriteThenSleep(t, v, v, increasing)

\* round(x, 2) of a number given in thousandths: to the nearest hundredth,
\* a tie to the even one.
Round2(x) ==
    LET q == x \div 10
        r == x % 10
    IN IF r < 5 THEN q
       ELSE IF r > 5 THEN q + 1
       ELSE IF q % 2 = 0 THEN q ELSE q + 1

\* A slip: the draw reaches a hundredth beyond either end.
UniformDrawsWide(a) == {a.min.n * 10 - 10, a.max.n * 10 + 10}

\* random.uniform(min, max), in thousandths: the ends, and points next to them.
UniformDraws(a) ==
    LET lo == a.min.n * 10
        hi == a.max.n * 10
    IN {lo, lo + 5, hi - 4, hi}

\* value = round(random.uniform(min, max), 2)
RandomNext(a) == {Float(Round2(x)) : x \in UniformDraws(a)}

random_data(t) ==
    /\ args[t].fn = "random_data"
    /\ Scheduled(t)
    /\ \E v \in (IF status[t] = "created" THEN {args[t].init} ELSE RandomNext(args[t])) :
          WriteThenSleep(t, v, v, increasing)

\* A slip: the turns are taken only beyond max and min (> and < for >= and <=).
CyclicDirectionStrict(v, up, a) ==
    LET d1 == IF v.n > a.max.n THEN FALSE ELSE up
    IN IF v.n < a.min.n THEN TRUE ELSE d1

\* A slip: the turn at max is missing.
CyclicDirectionNoMax(v, up, a) == IF v.n <= a.min.n THEN TRUE ELSE up

\* if value >= max: increasing = False; if value <= min: increasing = True
CyclicDirection(v, up, a) ==
    LET d1 == IF v.n >= a.max.n THEN FALSE ELSE up
    IN IF v.n <= a.min.n THEN TRUE ELSE d1

\* value = value + step if increasing else value - step
CyclicNext(v, up, a) == IF up THEN Add(v, a.step) ELSE Add(v, Neg(a.step))

cyclic_data(t) ==
    /\ args[t].fn = "cyclic_data"
    /\ Scheduled(t)
    /\ IF status[t] = "created"
         THEN WriteThenSleep(t, args[t].init, UaDouble(args[t].init), TRUE)
         ELSE LET up == CyclicDirection(value[t], increasing, args[t])
                  v == CyclicNext(value[t], up, args[t])
              IN WriteThenSleep(t, v, UaDouble(v), up)

\* Time passes while every task sleeps: the loop runs each ready task before
\* it waits for the next timer.
Tick ==
    /\ LoopRunning
    /\ \A t \in Generators : ~Ready(t)
    /\ slept' = [t \in Tasks |->
                    IF status[t] = "sleeping"
                      THEN Min2(slept[t] + 1, SleepTicks(args[t]))
                      ELSE slept[t]]
    /\ now' = Min2(now + 1, MaxClock)
    /\ UNCHANGED <<mainVars, mirrorVars, feedVars, args, status, exc, value, increasing,
                   store, nwrites>>

(* ------------------------------- mirror ------------------------------- *)

Notification(node, val) == [node |-> node, val |-> val]

\* A slip: the handler is given the original as its copy as well.
copy_data_same == "MirrorDataOriginal"

\* A slip: the handler is given another variable as its original.
orig_data_other == "BooleanData"

\* MirrorHandler(server, mirror_orig_data, mirror_copy_data)
orig_data == "MirrorDataOriginal"
copy_data == "MirrorDataCopy"

NoCall == [node |-> "none", val |-> None, logged |-> FALSE, wrote |-> FALSE]

\* MirrorHandler.datachange_notification(node, val, data)
datachange_notification(node, val) ==
    IF node = orig_data
      THEN IF ~IsBool(val)
             THEN \* logger.error("Node value is not boolean"); return
                  /\ lastCall' = [node |-> node, val |-> val, logged |-> TRUE, wrote |-> FALSE]
                  /\ UNCHANGED store
             ELSE \* server.write_attribute_value(copy_data.nodeid, DataValue(val))
                  /\ lastCall' = [node |-> node, val |-> val, logged |-> FALSE, wrote |-> TRUE]
                  /\ store' = [store EXCEPT ![copy_data] = val]
      ELSE /\ lastCall' = [node |-> node, val |-> val, logged |-> FALSE, wrote |-> FALSE]
           /\ UNCHANGED store

\* The subscription delivers its oldest notification to the handler.
DataChange ==
    /\ LoopRunning
    /\ queue # <<>>
    /\ datachange_notification(Head(queue).node, Head(queue).val)
    /\ queue' = Tail(queue)
    /\ UNCHANGED <<mainVars, sub, writable, feedVars, args, status, exc, slept, value,
                   increasing, nwrites, now>>

\* A client of the running server writes MirrorDataOriginal, which start()
\* made writable; a write that changes the value is notified.  (A store that
\* checks types refuses the non-boolean write, which changes nothing.)
ClientWrite(val) ==
    /\ mainpc = "gather"
    /\ writable
    /\ Len(queue) < MaxQueue
    /\ val # store["MirrorDataOriginal"]
    /\ store' = [store EXCEPT !["MirrorDataOriginal"] = val]
    /\ queue' = IF sub = "subscribed"
                  THEN Append(queue, Notification("MirrorDataOriginal", val))
                  ELSE queue
    /\ UNCHANGED <<mainVars, sub, writable, lastCall, feedVars, args, status, exc, slept,
                   value, increasing, nwrites, now>>

\* The subscription object notes a change of any node it may be given to
\* watch: the handler is its sink whatever the node.
Notify(node, val) ==
    /\ LoopRunning
    /\ Len(queue) < MaxQueue
    /\ queue' = Append(queue, Notification(node, val))
    /\ UNCHANGED <<mainVars, sub, writable, lastCall, feedVars, args, status, exc, slept,
                   value, increasing, store, nwrites, now>>

(* ---------------------------- feed adapter ---------------------------- *)

Digit(d) == <<"0", "1", "2", "3", "4", "5", "6", "7", "8", "9">>[d + 1]

RECURSIVE NatStr(_)
NatStr(k) == IF k < 10 THEN <<Digit(k)>> ELSE NatStr(k \div 10) \o <<Digit(k % 10)>>

\* str(x) of a float given in hundredths: 43.1 is "43.1", -2.0 is "-2.0".
FloatStr(h) ==
    LET a == IF h < 0 THEN 0 - h ELSE h
        frac == a % 100
    IN (IF h < 0 THEN <<"-">> ELSE <<>>) \o NatStr(a \div 100) \o <<".">> \o
       (IF frac % 10 = 0 THEN <<Digit(frac \div 10)>>
        ELSE <<Digit(frac \div 10), Digit(frac % 10)>>)

\* "{}".format(v)
Format(v) ==
    CASE v.vt = "Null" -> <<"N", "o", "n", "e">>
      [] v.vt = "String" -> v.s
      [] v.vt = "Boolean" -> IF v.n = 1 THEN <<"T", "r", "u", "e">> ELSE <<"F", "a", "l", "s", "e">>
      [] v.vt = "Int64" -> (IF v.n < 0 THEN <<"-">> ELSE <<>>) \o
                           NatStr((IF v.n < 0 THEN 0 - v.n ELSE v.n) \div Hundredths)
      [] OTHER -> FloatStr(v.n)

\* A slip: the two arguments of format in the wrong order.
LatLongSwapped(lat, long) ==
    Str(<<"l", "a", "t", "=">> \o Format(long) \o <<",", "l", "o", "n", "g", "=">> \o Format(lat))

\* lat_long = "lat={},long={}".format(lat, long)
LatLong(lat, long) ==
    Str(<<"l", "a", "t", "=">> \o Format(lat) \o <<",", "l", "o", "n", "g", "=">> \o Format(long))

\* position.get("latitude"), position.get("longitude"): None when the key is absent
Position(lat, long) == [latitude |-> lat, longitude |-> long]

\* A slip: `if lat is not None`, which lets a latitude of 0.0 through.
WritesLatPresent(p) == p.latitude.vt # "Null"

\* if lat: ...   if long: ...   if long and lat: ...
WritesLat(p) == Truthy(p.latitude)
WritesLong(p) == Truthy(p.longitude)
WritesLatLong(p) == Truthy(p.longitude) /\ Truthy(p.latitude)

\* One awaited write_value of on_update on variable d, then on to `next`;
\* a rejected write raises out of on_update and of the task.
FeedWrite(d, w, next, returns) ==
    \E out \in WriteOutcomes(d, w) :
        IF out = "ok"
          THEN /\ store' = [store EXCEPT ![d] = w]
               /\ nwrites' = [nwrites EXCEPT ![d] = Count(@)]
               /\ fed' = [fed EXCEPT ![Len(fed)] = @ \cup {d}]
               /\ fpc' = next
               /\ idx' = IF returns THEN idx + 1 ELSE idx
               /\ UNCHANGED <<status, exc>>
          ELSE /\ status' = [status EXCEPT !["tcx_task"] = "failed"]
               /\ exc' = [exc EXCEPT !["tcx_task"] = out]
               /\ UNCHANGED <<store, nwrites, fed, fpc, idx>>

FeedSkip(next, returns) ==
    /\ fpc' = next
    /\ idx' = IF returns THEN idx + 1 ELSE idx
    /\ UNCHANGED <<store, nwrites, fed, status, exc>>

\* TCXUpdateHandler.on_update(position), one awaited write after the other
on_update ==
    /\ LoopRunning
    /\ status["tcx_task"] = "running"
    /\ LET p == track[idx + 1] IN
       \/ /\ fpc = "lat"
          /\ IF WritesLat(p)
               THEN FeedWrite("GPSLatitude", p.latitude, "long", FALSE)
               ELSE FeedSkip("long", FALSE)
       \/ /\ fpc = "long"
          /\ IF WritesLong(p)
               THEN FeedWrite("GPSLongitude", p.longitude, "lat_long", FALSE)
               ELSE FeedSkip("lat_long", FALSE)
       \/ /\ fpc = "lat_long"
          /\ IF WritesLatLong(p)
               THEN FeedWrite("GPSLatitudeAndLongitude", LatLong(p.latitude, p.longitude),
                              "wait", TRUE)
               ELSE FeedSkip("wait", TRUE)
    /\ UNCHANGED <<mainVars, mirrorVars, track, args, slept, value, increasing, now>>

\* TCXUpdateHandler.start(): register_callback(on_update), then tcx.start(),
\* which fails on a track file it cannot read.
TcxStart ==
    /\ LoopRunning
    /\ status["tcx_task"] = "created"
    /\ \E out \in {"ok", "FeedSourceFailure"} :
          IF out = "ok"
            THEN status' = [status EXCEPT !["tcx_task"] = "running"] /\ exc' = exc
            ELSE /\ status' = [status EXCEPT !["tcx_task"] = "failed"]
                 /\ exc' = [exc EXCEPT !["tcx_task"] = out]
    /\ UNCHANGED <<mainVars, mirrorVars, feedVars, args, slept, value, increasing,
                   store, nwrites, now>>

\* The TCX handler passes the next record of the track to the callback.
TcxEmit ==
    /\ LoopRunning
    /\ status["tcx_task"] = "running"
    /\ fpc = "wait"
    /\ idx < Len(track)
    /\ fpc' = "lat"
    /\ fed' = Append(fed, {})
    /\ UNCHANGED <<mainVars, mirrorVars, track, idx, args, status, exc, slept, value,
                   increasing, store, nwrites, now>>

\* The track is exhausted: tcx.start() and the task return.
TcxFinish ==
    /\ LoopRunning
    /\ status["tcx_task"] = "running"
    /\ fpc = "wait"
    /\ idx = Len(track)
    /\ status' = [status EXCEPT !["tcx_task"] = "finished"]
    /\ UNCHANGED <<mainVars, mirrorVars, feedVars, args, exc, slept, value, increasing,
                   store, nwrites, now>>

(* -------------------------------- main -------------------------------- *)

MainRaise(e) == mainpc' = "done" /\ mainExc' = e

\* self.sub = await self.server.create_subscription(500, self)
MainCreateSubscription ==
    /\ mainpc = "create_subscription"
    /\ \E out \in {"ok", "SubscriptionSetupFailure"} :
          IF out = "ok"
            THEN mainpc' = "set_writable" /\ sub' = "created" /\ mainExc' = mainExc
            ELSE MainRaise(out) /\ sub' = sub
    /\ UNCHANGED <<writable, queue, lastCall, feedVars, args, status, exc, slept, value,
                   increasing, store, nwrites, now>>

\* A slip: start() goes on to subscribe without the set_writable call.
MainSetWritableSkipped ==
    /\ mainpc = "set_writable"
    /\ mainpc' = "subscribe_data_change"
    /\ UNCHANGED <<mainExc, sub, writable, queue, lastCall, feedVars, args, status, exc,
                   slept, value, increasing, store, nwrites, now>>

\* await self.orig_data.set_writable()
MainSetWritable ==
    /\ mainpc = "set_writable"
    /\ mainpc' = "subscribe_data_change"
    /\ writable' = TRUE
    /\ UNCHANGED <<mainExc, sub, queue, lastCall, feedVars, args, status, exc, slept, value,
                   increasing, store, nwrites, now>>

\* await self.sub.subscribe_data_change(self.orig_data): the new monitored
\* item reports the variable's current value first.
MainSubscribe ==
    /\ mainpc = "subscribe_data_change"
    /\ \E out \in {"ok", "SubscriptionSetupFailure"} :
          IF out = "ok"
            THEN /\ mainpc' = "tcx_init"
                 /\ sub' = "subscribed"
                 /\ queue' = Append(queue, Notification(orig_data, store[orig_data]))
                 /\ mainExc' = mainExc
            ELSE MainRaise(out) /\ UNCHANGED <<sub, queue>>
    /\ UNCHANGED <<writable, lastCall, feedVars, args, status, exc, slept, value,
                   increasing, store, nwrites, now>>

\* tcx_update_handler = TCXUpdateHandler(...), whose __init__ builds
\* TCXHandler(filepath); tcx_task = asyncio.Task(tcx_update_handler.start())
MainTcxInit ==
    /\ mainpc = "tcx_init"
    /\ \E out \in {"ok", "FeedSourceFailure"} :
          IF out = "ok"
            THEN /\ mainpc' = "server_start"
                 /\ status' = [status EXCEPT !["tcx_task"] = "created"]
                 /\ mainExc' = mainExc
            ELSE MainRaise(out) /\ status' = status
    /\ UNCHANGED <<mirrorVars, feedVars, args, exc, slept, value, increasing, store,
                   nwrites, now>>

\* async with server: (entering starts the server)
MainServerStart ==
    /\ mainpc = "server_start"
    /\ mainpc' = "gather"
    /\ UNCHANGED <<mainExc, mirrorVars, feedVars, args, status, exc, slept, value,
                   increasing, store, nwrites, now>>

\* await asyncio.gather(bool_task, ..., tcx_task): the first exception of a
\* task is raised in main() at once; the other tasks are left as they are.
\* (gather returns only when every task has returned, and no generator does.)
MainGather ==
    /\ mainpc = "gather"
    /\ \E t \in Tasks :
          /\ status[t] = "failed"
          /\ mainExc' = exc[t]
    /\ mainpc' = "server_stop"
    /\ UNCHANGED <<mirrorVars, feedVars, args, status, exc, slept, value, increasing,
                   store, nwrites, now>>

\* The exception leaves the `async with server` block, which stops the
\* server, and then main(): run_until_complete raises and the loop is over.
MainServerStop ==
    /\ mainpc = "server_stop"
    /\ mainpc' = "done"
    /\ UNCHANGED <<mainExc, mirrorVars, feedVars, args, status, exc, slept, value,
                   increasing, store, nwrites, now>>

(* ------------------------- the wired system --------------------------- *)

\* The track of the feed adapter's example.
ExampleTrack ==
    <<Position(Float(4310), Float(0 - 200)),
      Position(None, Float(0 - 210)),
      Position(Float(4320), None)>>

\* The track file main() names: the wired system replays one full record.
WiredTrack == <<Position(Float(4310), Float(0 - 200))>>

\* main() has created the variables and the six generator tasks.
InitCommon ==
    /\ mainExc = "none"
    /\ sub = "none"
    /\ writable = FALSE
    /\ exc = [t \in Tasks |-> "none"]
    /\ slept = [t \in Tasks |-> 0]
    /\ value = [t \in Tasks |-> None]
    /\ increasing = TRUE
    /\ store = [v \in Variables |-> InitialValue(v)]
    /\ nwrites = [v \in Variables |-> 0]
    /\ queue = <<>>
    /\ lastCall = NoCall
    /\ idx = 0
    /\ fpc = "wait"
    /\ fed = <<>>
    /\ now = 0

Init ==
    /\ InitCommon
    /\ mainpc = "create_subscription"
    /\ args = WiredArgs
    /\ status = [t \in Tasks |-> IF t \in Generators THEN "created" ELSE "absent"]
    /\ track = WiredTrack

\* The wired system is followed up to the clock reading MaxTime.
SysTick == now < MaxTime /\ Tick

Next ==
    \/ \E t \in Generators : toggle_data(t)
    \/ \E t \in Generators : periodic_data(t)
    \/ \E t \in Generators : random_data(t)
    \/ \E t \in Generators : cyclic_data(t)
    \/ SysTick
    \/ MainCreateSubscription
    \/ MainSetWritable
    \/ MainSubscribe
    \/ MainTcxInit
    \/ MainServerStart
    \/ MainGather
    \/ MainServerStop
    \/ DataChange
    \/ \E b \in BOOLEAN : ClientWrite(Bool(b))
    \/ ClientWrite(Int64(1))
    \/ TcxStart
    \/ TcxEmit
    \/ on_update
    \/ TcxFinish

Spec == Init /\ [][Next]_vars

(* ----------------------- toggle_data on its own ----------------------- *)

Alone(t, a) ==
    /\ InitCommon
    /\ mainpc = "gather"
    /\ args = [u \in Tasks |-> IF u = t THEN a ELSE NoArgs]
    /\ status = [u \in Tasks |-> IF u = t THEN "created" ELSE "absent"]

InitToggle ==
    /\ \E refresh \in 1..MaxRefresh, init \in BOOLEAN :
          Alone("bool_task", ToggleArgs("BooleanData", refresh, Bool(init)))
    /\ track = <<>>

NextToggle ==
    \/ toggle_data("bool_task")
    \/ Tick

SpecToggle == InitToggle /\ [][NextToggle]_vars

(* ----------------------- cyclic_data on its own ----------------------- *)

\* cyclic_data as main() calls it, and on a short range from a start on the
\* lower end, off the grid of steps, and on the upper end.
CyclicConfigs ==
    {WiredArgs["cyclic_task"]} \cup
    {CyclicArgs("CyclicData", 2, Float(50), init, Int64(0), Int64(1)) :
        init \in {Int64(0), Float(25), Int64(1)}}

InitCyclic ==
    /\ \E a \in CyclicConfigs : Alone("cyclic_task", a)
    /\ track = <<>>

NextCyclic ==
    \/ cyclic_data("cyclic_task")
    \/ Tick

\* The loop keeps running the task when its sleep is over, and time passes.
SpecCyclic ==
    InitCyclic /\ [][NextCyclic]_vars
    /\ WF_vars(cyclic_data("cyclic_task")) /\ WF_vars(Tick)

(* ---------------------- periodic_data on its own ---------------------- *)

\* periodic_data as main() calls it for NegativeTrendData, and with other
\* starts, increments (int and float, rising and falling) and sleeps.
PeriodicConfigs ==
    {WiredArgs["neg_task"]} \cup
    {PeriodicArgs("NegativeTrendData", refresh, init, increment) :
        refresh \in 1..MaxRefresh,
        init \in {Int64(0), Int64(3), Float(150)},
        increment \in {Int64(1), Int64(0 - 2), Float(50)}}

InitPeriodic ==
    /\ \E a \in PeriodicConfigs : Alone("neg_task", a)
    /\ track = <<>>

NextPeriodic ==
    \/ periodic_data("neg_task")
    \/ Tick

\* The loop keeps running the task when its sleep is over, and time passes.
SpecPeriodic ==
    InitPeriodic /\ [][NextPeriodic]_vars
    /\ WF_vars(periodic_data("neg_task")) /\ WF_vars(Tick)

(* ----------------------- random_data on its own ----------------------- *)

\* random_data as main() calls it for TemperatureData, and with shorter sleeps.
RandomConfigs ==
    {WiredArgs["temp_task"]} \cup
    {RandomArgs("TemperatureData", refresh, Float(1850), Int64(15), Int64(22)) :
        refresh \in 1..MaxRefresh}

InitRandom ==
    /\ \E a \in RandomConfigs : Alone("temp_task", a)
    /\ track = <<>>

NextRandom ==
    \/ random_data("temp_task")
    \/ Tick

SpecRandom == InitRandom /\ [][NextRandom]_vars

(* ------------------- the feed adapter on its own ---------------------- *)

\* Records with each field present, absent or zero.
Records ==
    {Position(Float(4310), Float(0 - 200)), Position(None, Float(0 - 210)),
     Position(Float(4320), None), Position(None, None),
     Position(Float(0), Float(0 - 200)), Position(Float(4310), Float(0)),
     Position(Float(4320), Float(0 - 210))}

Tracks == UNION {[1..k -> Records] : k \in 0..MaxTrack}

InitFeed ==
    /\ Alone("tcx_task", [NoArgs EXCEPT !.fn = "TCXUpdateHandler.start"])
    /\ track \in Tracks

NextFeed ==
    \/ TcxStart
    \/ TcxEmit
    \/ on_update
    \/ TcxFinish

SpecFeed == InitFeed /\ [][NextFeed]_vars

(* ------------- toggle_data and the feed adapter together -------------- *)

\* A toggle of period 1 from True and the feed task, both created, on one
\* loop; the feed replays a track of two records.
InitPair ==
    /\ InitCommon
    /\ mainpc = "gather"
    /\ args = [t \in Tasks |->
                 CASE t = "bool_task" -> ToggleArgs("BooleanData", 1, Bool(TRUE))
                   [] t = "tcx_task" -> WiredArgs[t]
                   [] OTHER -> NoArgs]
    /\ status = [t \in Tasks |-> IF t \in {"bool_task", "tcx_task"} THEN "created" ELSE "absent"]
    /\ track \in [1..2 -> Records]

NextPair ==
    \/ toggle_data("bool_task")
    \/ Tick
    \/ TcxStart
    \/ TcxEmit
    \/ on_update
    \/ TcxFinish

SpecPair == InitPair /\ [][NextPair]_vars

(* ------------- datachange_notification on its own --------------------- *)

HandlerNodes == {"MirrorDataOriginal", "MirrorDataCopy", "BooleanData"}
HandlerValues == {Bool(TRUE), Bool(FALSE), Int64(1)}

\* The handler called with any of these nodes and values, in any order.
InitHandler ==
    /\ InitCommon
    /\ mainpc = "gather"
    /\ args = [t \in Tasks |-> NoArgs]
    /\ status = [t \in Tasks |-> "absent"]
    /\ track = <<>>

NextHandler ==
    \/ \E node \in HandlerNodes, val \in HandlerValues : Notify(node, val)
    \/ DataChange

SpecHandler == InitHandler /\ [][NextHandler]_vars

(* -------------------- the mirror and main() on their own -------------- *)

\* main() with no generator task and an empty track: the mirror's start, the
\* feed task's start and end, the clients of the server and the deliveries.
InitMirror ==
    /\ InitCommon
    /\ mainpc = "create_subscription"
    /\ args = [t \in Tasks |-> IF t = "tcx_task" THEN WiredArgs[t] ELSE NoArgs]
    /\ status = [t \in Tasks |-> "absent"]
    /\ track = <<>>

NextMirror ==
    \/ MainCreateSubscription
    \/ MainSetWritable
    \/ MainSubscribe
    \/ MainTcxInit
    \/ MainServerStart
    \/ MainGather
    \/ MainServerStop
    \/ DataChange
    \/ \E b \in BOOLEAN : ClientWrite(Bool(b))
    \/ ClientWrite(Int64(1))
    \/ TcxStart
    \/ TcxFinish

\* The store delivers every notification it holds while the loop runs.
SpecMirror == InitMirror /\ [][NextMirror]_vars /\ WF_vars(DataChange)

(* ------------------------------ properties ---------------------------- *)

Stopped == mainpc \in {"server_stop", "done"}

\* C1: a write of one generator task that the store rejects ends only that
\* task: main() is never brought down by the exception of a generator, so
\* the siblings and the feed adapter go on writing.
C1_GeneratorFailureIsolated ==
    \A t \in Generators :
        (status[t] = "failed" /\ exc[t] \in {"WriteFailure", "TypeMismatch"})
            => ~(Stopped /\ mainExc = exc[t])

InQueue(val) ==
    \E i \in 1..Len(queue) : queue[i] = Notification("MirrorDataOriginal", val)

\* The store delivers: again and again it holds no undelivered notification.
FairDelivery == []<>(queue = <<>>)

\* C2: if the store delivers its notifications, every boolean value written
\* to MirrorDataOriginal once the mirror has subscribed eventually is the
\* value of MirrorDataCopy.
C2_MirrorLiveness ==
    FairDelivery =>
        \A b \in BOOLEAN : InQueue(Bool(b)) ~> (store["MirrorDataCopy"] = Bool(b))

C2_Witness ==
    /\ lastCall = [node |-> "MirrorDataOriginal", val |-> Bool(FALSE),
                   logged |-> FALSE, wrote |-> TRUE]
    /\ store["MirrorDataCopy"] = Bool(FALSE)
    /\ queue = <<>>

NonBooleanCall ==
    /\ queue # <<>>
    /\ queue' = Tail(queue)
    /\ Head(queue).node = "MirrorDataOriginal"
    /\ Head(queue).val.vt # "Boolean"

\* C3: MirrorDataCopy always holds a boolean; a notification of a
\* non-boolean value of MirrorDataOriginal logs an error, writes nothing,
\* leaves MirrorDataCopy as it is, and raises nothing: main() and the tasks
\* stand where they stood.
C3_MirrorTypeGuard ==
    /\ [](/\ store["MirrorDataCopy"].vt = "Boolean"
          /\ (lastCall.node = "MirrorDataOriginal" /\ lastCall.val.vt # "Boolean")
                => (lastCall.logged /\ ~lastCall.wrote))
    /\ [][NonBooleanCall =>
            /\ store'["MirrorDataCopy"] = store["MirrorDataCopy"]
            /\ lastCall'.logged /\ ~lastCall'.wrote
            /\ mainpc' = mainpc /\ mainExc' = mainExc
            /\ status' = status /\ exc' = exc]_vars

C3_Witness ==
    /\ lastCall.logged
    /\ lastCall.val.vt = "Int64"
    /\ store["MirrorDataOriginal"].vt = "Int64"

Present(c) == c.vt # "Null" /\ c.n # 0

ExpectedWrites(p) ==
    (IF Present(p.latitude) THEN {"GPSLatitude"} ELSE {}) \cup
    (IF Present(p.longitude) THEN {"GPSLongitude"} ELSE {}) \cup
    (IF Present(p.latitude) /\ Present(p.longitude) THEN {"GPSLatitudeAndLongitude"} ELSE {})

\* C4: for every record whose on_update call has returned, the latitude
\* variable was written iff the latitude is present and not 0.0, the
\* longitude variable iff the longitude is, the combined variable iff both
\* are; replaying the example track writes the combined variable once (for
\* record 1), the latitude for records 1 and 3, the longitude for 1 and 2.
C4_FeedSelectiveWrites ==
    /\ \A i \in 1..idx : fed[i] = ExpectedWrites(track[i])
    /\ (track = ExampleTrack /\ status["tcx_task"] = "finished") =>
          /\ fed = <<{"GPSLatitude", "GPSLongitude", "GPSLatitudeAndLongitude"},
                     {"GPSLongitude"}, {"GPSLatitude"}>>
          /\ nwrites["GPSLatitudeAndLongitude"] = 1
          /\ nwrites["GPSLatitude"] = 2
          /\ nwrites["GPSLongitude"] = 2

C4_Witness == track = ExampleTrack /\ status["tcx_task"] = "finished"

\* C5: a track file that cannot be read is fatal to the feed adapter only:
\* main() never ends with the feed source's failure, be it raised by
\* TCXUpdateHandler.__init__ or inside the feed task's start().
C5_FeedFailureIsolated == ~(Stopped /\ mainExc = "FeedSourceFailure")

\* C6: a subscription the store cannot set up is fatal to the mirror only:
\* main() goes on, and the feed adapter is still constructed and started.
C6_SubscriptionFailureIsolated ==
    ~(Stopped /\ mainExc = "SubscriptionSetupFailure" /\ status["tcx_task"] = "absent")

\* C7: a write rejected for its type is dropped: the rejection never becomes
\* the exception a task ends with.
C7_TypeMismatchDropped == \A t \in Tasks : exc[t] # "TypeMismatch"

ToggleNth ==
    LET init == Truthy(args["bool_task"].init)
    IN \A k \in 1..(MaxWrites - 1) :
          nwrites["BooleanData"] = k => store["BooleanData"] = Bool(init # ((k - 1) % 2 = 1))

ToggleWritesFirst ==
    (status["bool_task"] = "sleeping" \/ slept["bool_task"] > 0) => nwrites["BooleanData"] >= 1

ToggleApart ==
    (status["bool_task"] = "sleeping" /\ value'["bool_task"] # value["bool_task"])
        => slept["bool_task"] >= args["bool_task"].refresh * TicksPerSecond

\* C8: the n-th value toggle_data writes is init XOR (n is odd), the first
\* write comes before any sleep, and `refresh` seconds lie between a write
\* and the next.
C8_ToggleSequence == [](ToggleNth /\ ToggleWritesFirst) /\ [][ToggleApart]_vars

C8_Witness ==
    /\ nwrites["BooleanData"] = 3
    /\ args["bool_task"].init = Bool(FALSE)
    /\ store["BooleanData"] = Bool(FALSE)

CyclicStep ==
    /\ status["cyclic_task"] = "sleeping"
    /\ store'["CyclicData"] # store["CyclicData"]

CyclicShape ==
    LET a == args["cyclic_task"]
        p == store["CyclicData"].n
    IN CyclicStep =>
          store'["CyclicData"] =
              Float(IF p >= a.max.n THEN p - a.step.n
                    ELSE IF p <= a.min.n THEN p + a.step.n
                    ELSE IF increasing THEN p + a.step.n ELSE p - a.step.n)

CyclicAtTop ==
    nwrites["CyclicData"] > 0 /\ store["CyclicData"].n >= args["cyclic_task"].max.n

CyclicAtBottom ==
    nwrites["CyclicData"] > 0 /\ store["CyclicData"].n <= args["cyclic_task"].min.n

\* C9: after its first write cyclic_data writes the last value plus step
\* while rising and minus step while falling; it falls from a written value
\* >= max on and rises from a written value <= min on; and, unless a rejected
\* write ends the task, both turns come again and again.
C9_TriangularWave ==
    /\ [][CyclicShape]_vars
    /\ \/ <>(status["cyclic_task"] = "failed")
       \/ ([]<>CyclicAtTop /\ []<>CyclicAtBottom)

C9_Witness ==
    /\ args["cyclic_task"] = WiredArgs["cyclic_task"]
    /\ store["CyclicData"] = Float(0 - 9950)
    /\ increasing

\* C10: every value cyclic_data writes lies in [min - step, max + step]; as
\* main() calls it, none is above 100.5 or below -100.5.
C10_TriangularBound ==
    LET a == args["cyclic_task"]
        w == store["CyclicData"].n
    IN /\ a.min.n - a.step.n <= w /\ w <= a.max.n + a.step.n
       /\ a = WiredArgs["cyclic_task"] => (0 - 10050 <= w /\ w <= 10050)

C10_Witness ==
    /\ nwrites["CyclicData"] > 0
    /\ store["CyclicData"].n > args["cyclic_task"].max.n

RandomInRange ==
    nwrites["TemperatureData"] > 0 =>
        /\ store["TemperatureData"].vt = "Double"
        /\ 15 * Hundredths <= store["TemperatureData"].n
        /\ store["TemperatureData"].n <= 22 * Hundredths

RandomFirst == nwrites["TemperatureData"] = 1 => store["TemperatureData"] = Float(1850)

RandomStep ==
    /\ status["temp_task"] = "sleeping"
    /\ \/ status'["temp_task"] # status["temp_task"]
       \/ slept'["temp_task"] < slept["temp_task"]
       \/ value'["temp_task"] # value["temp_task"]

RandomDrawnAfterWait ==
    RandomStep =>
        /\ slept["temp_task"] >= args["temp_task"].refresh * TicksPerSecond
        /\ status'["temp_task"] = "sleeping" => store'["TemperatureData"] = value'["temp_task"]

RampNth ==
    LET a == args["neg_task"]
    IN \A k \in 1..MaxWrites :
          nwrites["NegativeTrendData"] = k =>
              store["NegativeTrendData"].n = a.init.n + (k - 1) * a.increment.n

RampFromZeroByMinusTwo ==
    args["neg_task"].init = Int64(0) /\ args["neg_task"].increment = Int64(0 - 2)

RampWired ==
    RampFromZeroByMinusTwo =>
        \A k \in 1..MaxWrites :
            nwrites["NegativeTrendData"] = k =>
                store["NegativeTrendData"] = Int64(0 - 2 * (k - 1))

\* The bounds the followed writes can pass: 0, -1, ..., down to the last but one value.
RampBounds == {0 - j : j \in 0..(2 * (MaxWrites - 1) - 1)}

RampBelow(B) ==
    nwrites["NegativeTrendData"] > 0 /\ store["NegativeTrendData"].n < B * Hundredths

\* C12: the n-th value periodic_data writes (n from 0) is init + n*increment,
\* unclamped; from init=0 by increment=-2 the values are 0, -2, -4, -6, ...
\* and, unless a rejected write ends the task, some written value is below
\* every bound.
C12_LinearRamp ==
    /\ [](RampNth /\ RampWired)
    /\ RampFromZeroByMinusTwo =>
          \/ <>(status["neg_task"] = "failed")
          \/ \A B \in RampBounds : <>RampBelow(B)

C12_Witness ==
    /\ args["neg_task"] = WiredArgs["neg_task"]
    /\ nwrites["NegativeTrendData"] = 4
    /\ store["NegativeTrendData"] = Int64(0 - 6)

PairValues ==
    /\ nwrites["BooleanData"] = 1 => store["BooleanData"] = Bool(TRUE)
    /\ nwrites["BooleanData"] = 2 => store["BooleanData"] = Bool(FALSE)
    /\ nwrites["BooleanData"] = 3 => store["BooleanData"] = Bool(TRUE)

PairByTime3 ==
    (status["bool_task"] # "failed" /\ now >= 3 * TicksPerSecond)
        => nwrites["BooleanData"] >= 3

PairNoDelay ==
    \A k \in 1..3 :
        (status["bool_task"] = "sleeping" /\ nwrites["BooleanData"] = k)
            => now = (k - 1) * TicksPerSecond + slept["bool_task"]

FeedStep ==
    \/ fpc' # fpc
    \/ idx' # idx
    \/ fed' # fed
    \/ status'["tcx_task"] # status["tcx_task"]

PairFeedApart ==
    FeedStep =>
        /\ store'["BooleanData"] = store["BooleanData"]
        /\ nwrites'["BooleanData"] = nwrites["BooleanData"]
        /\ status'["bool_task"] = status["bool_task"]
        /\ value'["bool_task"] = value["bool_task"]
        /\ slept'["bool_task"] = slept["bool_task"]
        /\ now' = now

CoordText(c) ==
    CASE c.n = 4310 -> <<"4", "3", ".", "1">>
      [] c.n = 4320 -> <<"4", "3", ".", "2">>
      [] c.n = 0 - 200 -> <<"-", "2", ".", "0">>
      [] c.n = 0 - 210 -> <<"-", "2", ".", "1">>
      [] OTHER -> <<"0", ".", "0">>

\* on_update has just returned from a call that wrote the combined variable.
CombinedWritten ==
    /\ fpc = "wait"
    /\ idx >= 1
    /\ "GPSLatitudeAndLongitude" \in fed[idx]

\* C14 (as claimed): the combined value on_update writes for a record with
\* latitude L and longitude G is the text of L, a comma, the text of G.
C14_CombinedPlain ==
    CombinedWritten =>
        store["GPSLatitudeAndLongitude"] =
            Str(CoordText(track[idx].latitude) \o <<",">> \o CoordText(track[idx].longitude))

\* C14 (amended): the combined value on_update writes for a record with
\* latitude L and longitude G is "lat=", the text of L, ",long=", the text
\* of G.
C14_CombinedLabelled ==
    CombinedWritten =>
        store["GPSLatitudeAndLongitude"] =
            Str(<<"l", "a", "t", "=">> \o CoordText(track[idx].latitude) \o
                <<",", "l", "o", "n", "g", "=">> \o CoordText(track[idx].longitude))

C14_Witness ==
    /\ CombinedWritten
    /\ track[idx] = Position(Float(4320), Float(0 - 210))
    /\ Len(store["GPSLatitudeAndLongitude"].s) = 18

StaysSubscribed == sub = "subscribed" => sub' = "subscribed"

\* C15 (as claimed): start() marks the original writable before it registers
\* the subscription, create_subscription included: no subscription exists
\* while the original is not writable; once subscribed, always subscribed.
C15_WritableBeforeSubscription ==
    [](sub # "none" => writable) /\ [][StaysSubscribed]_vars

SubscriptionSteps ==
    sub' # sub =>
        \/ sub = "none" /\ sub' = "created" /\ ~writable
        \/ sub = "created" /\ sub' = "subscribed" /\ writable

WritableSteps == writable' # writable => (sub = "created" /\ writable')

\* C15 (amended): start() creates the subscription, then marks the original
\* writable, and only then subscribes to the data changes of the original;
\* once subscribed, always subscribed.
C15_MirrorStartOrder ==
    /\ []((writable => sub # "none") /\ (sub = "subscribed" => writable))
    /\ [][SubscriptionSteps /\ WritableSteps /\ StaysSubscribed]_vars

C15_Witness == sub = "subscribed" /\ writable /\ mainpc = "gather" /\ queue = <<>>

HandlerCall == queue # <<>> /\ queue' = Tail(queue)

OtherNodeIgnored ==
    (HandlerCall /\ Head(queue).node # "MirrorDataOriginal") =>
        /\ store' = store
        /\ ~lastCall'.logged
        /\ ~lastCall'.wrote

CopyOnlyFromOriginal ==
    store'["MirrorDataCopy"] # store["MirrorDataCopy"] =>
        /\ HandlerCall
        /\ Head(queue).node = "MirrorDataOriginal"
        /\ Head(queue).val.vt = "Boolean"

BooleanCopied ==
    (HandlerCall /\ Head(queue).node = "MirrorDataOriginal" /\ Head(queue).val.vt = "Boolean")
        => store'["MirrorDataCopy"] = Head(queue).val

\* C16: a notification of a node other than MirrorDataOriginal writes
\* nothing and logs nothing, whatever its value; MirrorDataCopy changes only
\* in a call for MirrorDataOriginal with a boolean, and is then that value.
C16_MirrorNodeGuard ==
    /\ [](lastCall.node \notin {"none", "MirrorDataOriginal"}
             => (~lastCall.logged /\ ~lastCall.wrote))
    /\ [][OtherNodeIgnored /\ CopyOnlyFromOriginal /\ BooleanCopied]_vars

C16_Witness ==
    /\ lastCall.node = "BooleanData"
    /\ lastCall.val = Bool(FALSE)
    /\ store["MirrorDataCopy"] = Bool(TRUE)
    /\ queue = <<>>

\* The one task expected to write each variable a task writes.
Writer(v) ==
    CASE v = "BooleanData" -> "bool_task"
      [] v = "PositiveTrendData" -> "pos_task"
      [] v = "NegativeTrendData" -> "neg_task"
      [] v = "TemperatureData" -> "temp_task"
      [] v = "HumidityData" -> "hum_task"
      [] v = "CyclicData" -> "cyclic_task"
      [] OTHER -> "tcx_task"

Written(v) == store'[v] # store[v] \/ nwrites'[v] # nwrites[v]

\* Task t has run: it went on from its await (only its own steps change its
\* status or local value, or restart its sleep).
TaskStepped(t) ==
    \/ status'[t] # status[t]
    \/ value'[t] # value[t]
    \/ slept'[t] < slept[t]
    \/ t = "tcx_task" /\ (fpc' # fpc \/ idx' # idx \/ fed' # fed)

SingleWriter ==
    \A v \in Variables :
        Written(v) =>
            IF v = "MirrorDataCopy"
              THEN HandlerCall /\ \A t \in Tasks : ~TaskStepped(t)
            ELSE IF v = "MirrorDataOriginal"
              THEN ~HandlerCall /\ \A t \in Tasks : ~TaskStepped(t)
            ELSE /\ TaskStepped(Writer(v))
                 /\ \A t \in Tasks \ {Writer(v)} : ~TaskStepped(t)
                 /\ ~HandlerCall

\* C17: in main()'s wiring every write of a variable comes from one task:
\* each generator writes only its own variable, the feed task only the three
\* GPS variables, the mirror only MirrorDataCopy (never MirrorDataOriginal,
\* which only clients write).
C17_SingleWriter == [][SingleWriter]_vars

C17_Witness ==
    /\ \A v \in Variables \ {"MirrorDataOriginal", "MirrorDataCopy"} : nwrites[v] > 0
    /\ lastCall.wrote
    /\ store["MirrorDataCopy"] = Bool(FALSE)

NoTaskWrites == \A v \in Variables \ {"MirrorDataOriginal", "MirrorDataCopy"} : ~Written(v)

\* C18: the tasks stop together: once the gather awaited in main() has ended
\* (main() is leaving, or has left, the `async with server` block), no
\* generator task and no feed task issues a write any more.
C18_CancelledAsUnit == [][Stopped => NoTaskWrites]_vars

\* C19: every value a task or the mirror has written has the variant type
\* its variable was declared with: Boolean for BooleanData and
\* MirrorDataCopy, Double for the ramp, random and cyclic variables, String
\* for the GPS variables.
C19_WritesTypeCorrect ==
    \A v \in Variables \ {"MirrorDataOriginal"} :
        (nwrites[v] > 0 \/ v = "MirrorDataCopy") => store[v].vt = DataType(v)

====
